---- MODULE Spec2Model ----
(***************************************************************************)
(* Model of src/main.py: Qudit (validated amplitude vector with            *)
(* measurement) and QuditAutomaton (chain of qudits, entanglement matrix,  *)
(* two-phase evolve, measure_all).                                         *)
(*                                                                         *)
(* Numbers.  The program computes in binary floating point.  The model     *)
(* keeps the same arithmetic at reduced precision: a value is an integer   *)
(* count of units of 1/ONE that     has at most PREC significant bits, and   *)
(* every operation rounds its exact result to the nearest such value       *)
(* (ties to even).  1.0 is ONE.  round(x, 10) of the source is scaled with *)
(* the precision to a rounding to ROUND_SCALE-ths.                         *)
(***************************************************************************)
EXTENDS Integers, Sequences, FiniteSets, TLC

\* ------------------------------------------------------------------ bounds
MaxQudits == 2
MaxDim == 2
MaxSteps == 2

\* -------------------------------------------------------- number format
PREC == 8
ONE == 4096
ROUND_SCALE == 10
NONE == -1

\* tabulates a vector once it is computed (it is the same function)
Eager(f) == IF f = <<>> THEN f ELSE f

Abs(x) == IF x < 0 THEN -x ELSE x
Sign(x) == IF x < 0 THEN -1 ELSE 1

RECURSIVE Pow2(_)
Pow2(k) == IF k = 0 THEN 1 ELSE 2 * Pow2(k - 1)

\* nearest integer to n/d (n >= 0, d > 0), ties to even
RoundHalfEven(n, d) ==
    LET fl == n \div d
        rem == n % d
    IN  IF 2 * rem < d THEN fl
        ELSE IF 2 * rem > d THEN fl + 1
        ELSE IF fl % 2 = 0 THEN fl ELSE fl + 1

\* spacing of the representable values around n/d (n >= 0, d > 0)
MANT == Pow2(PREC)
RECURSIVE Quantum(_, _, _)
Quantum(n, d, q) == IF n < MANT * d * q THEN q ELSE Quantum(n, d, 2 * q)

\* the representable value nearest to num/den (den > 0)
Fl(num, den) ==
    LET n == Abs(num)
        q == Quantum(n, den, 1)
    IN  Sign(num) * q * RoundHalfEven(n, den * q)

FAdd(a, b) == Fl(a + b, 1)
FMul(a, b) == Fl(a * b, ONE)
FDiv(a, b) == Sign(b) * Fl(a * ONE, Abs(b))

\* floor of the square root of x (x >= 0), by bisection on lo..hi
RECURSIVE ISqrtIn(_, _, _)
ISqrtIn(x, lo, hi) ==
    IF lo = hi THEN lo
    ELSE LET mid == (lo + hi + 1) \div 2
         IN  IF mid * mid <= x THEN ISqrtIn(x, mid, hi) ELSE ISqrtIn(x, lo, mid - 1)
ISqrt(x) == ISqrtIn(x, 0, 46340)

\* math.sqrt: the representable value nearest to the square root of a
FSqrt(a) ==
    LET x == a * ONE
        q == Quantum(ISqrt(x), 1, 1)
        m == ISqrt(x \div (q * q))
        up == IF q = 1 THEN x >= m * m + m + 1
              ELSE x >= (2 * m + 1) * (2 * m + 1) * (q \div 2) * (q \div 2)
    IN  q * (IF up THEN m + 1 ELSE m)

\* abs(c) ** 2
SqMag(c) == FMul(Abs(c), Abs(c))

\* sum(abs(c) ** 2 for c in amplitudes): left to right, starting from 0
RECURSIVE SumSqFrom(_, _, _, _)
SumSqFrom(amps, d, i, acc) ==
    IF i = d THEN acc ELSE SumSqFrom(amps, d, i + 1, FAdd(acc, SqMag(amps[i])))
SumSq(amps) == SumSqFrom(amps, Cardinality(DOMAIN amps), 0, 0)

\* a rounding that drops the digits after the last kept one
RoundProbDown(total) == (total * ROUND_SCALE) \div ONE

\* round(total_prob, 10), as a count of ROUND_SCALE-ths
RoundProb(total) == RoundHalfEven(total * ROUND_SCALE, ONE)

\* Qudit._validate does not raise
ValidAmplitudes(amps) == RoundProb(SumSq(amps)) = ROUND_SCALE

OneHot(d, m) == [j \in 0..(d - 1) |-> IF j = m THEN ONE ELSE 0]

\* ------------------------------------------------------------ caller inputs
\* strengths passed to entangle: -1.0, 0.5, 1.0
Strengths == {-ONE, ONE \div 2, ONE}
\* np.random.rand(): 0.0, 0.5 and the largest value below 1.0
Draws == {0, ONE \div 2, ONE - ONE \div Pow2(PREC)}

\* amplitudes passed to Qudit(...) and reset_amplitudes(...): -1.0, 0.0, 0.5,
\* 0.6, 0.8, 1.0 and the values 1/64 and 1/32 below and above 1.0
AmpValues == {-ONE, 0, ONE \div 2, Fl(6 * ONE, 10), Fl(8 * ONE, 10),
              ONE - ONE \div 32, ONE - ONE \div 64, ONE,
              ONE + ONE \div 64, ONE + ONE \div 32}
AmpVectors(d) == [0..(d - 1) -> AmpValues]

VARIABLES num_qudits, dimension, qudits, entanglement_matrix,
          op, status, args, pre_qudits, pre_matrix,
          entangled_amplitudes, ruled_amplitudes,
          new_amplitudes, commits, measurements, steps

vars == <<num_qudits, dimension, qudits, entanglement_matrix,
          op, status, args, pre_qudits, pre_matrix,
          entangled_amplitudes, ruled_amplitudes,
          new_amplitudes, commits, measurements, steps>>

Entities == 0..(num_qudits - 1)
Outcomes == 0..(dimension - 1)

\* a rules dict maps a key to the name of its function, "absent" for no entry:
\* "zero" is lambda x: 0.0, "shift" is lambda x: x + 1.0 and "damp" is
\* lambda amp: amp * (1 - 0.1)
NoRules == [k \in 0..MaxDim + 1 |-> "absent"]
\* the rules dicts passed to evolve
RuleSets == {NoRules,
             [NoRules EXCEPT ![0] = "zero"],
             [NoRules EXCEPT ![0] = "damp", ![1] = "shift"],
             [NoRules EXCEPT ![1] = "shift"],
             [NoRules EXCEPT ![0] = "zero", ![1] = "shift"],
             [NoRules EXCEPT ![MaxDim] = "zero"]}
\* the arguments of the last call, one record shape for every operation
NoArgs == [i |-> 0, j |-> 0, strength |-> 0, rules |-> NoRules, obs |-> <<>>,
           amplitudes |-> <<>>]

\* ------------------------------------------------------------ Qudit.measure
\* the loop of measure from index i with cumulative_prob = cum; falling off
\* the end of the loop returns None and leaves the amplitudes as they were
RECURSIVE MeasureFrom(_, _, _, _, _)
MeasureFrom(amps, d, obs, i, cum) ==
    IF i = d THEN [outcome |-> NONE, amplitudes |-> amps]
    ELSE LET cumulative_prob == FAdd(cum, SqMag(amps[i]))
         IN  IF obs < cumulative_prob
             THEN [outcome |-> i, amplitudes |-> OneHot(d, i)]
             ELSE MeasureFrom(amps, d, obs, i + 1, cumulative_prob)

\* a measure that also accepts obs = cumulative_prob
RECURSIVE MeasureInclusiveFrom(_, _, _, _, _)
MeasureInclusiveFrom(amps, d, obs, i, cum) ==
    IF i = d THEN [outcome |-> NONE, amplitudes |-> amps]
    ELSE LET cumulative_prob == FAdd(cum, SqMag(amps[i]))
         IN  IF obs <= cumulative_prob
             THEN [outcome |-> i, amplitudes |-> OneHot(d, i)]
             ELSE MeasureInclusiveFrom(amps, d, obs, i + 1, cumulative_prob)
MeasureInclusive(amps, obs) ==
    MeasureInclusiveFrom(amps, Cardinality(DOMAIN amps), obs, 0, 0)

\* a measure that compares obs with prob, not with cumulative_prob
RECURSIVE MeasureEachProbFrom(_, _, _, _)
MeasureEachProbFrom(amps, d, obs, i) ==
    IF i = d THEN [outcome |-> NONE, amplitudes |-> amps]
    ELSE IF obs < SqMag(amps[i])
         THEN [outcome |-> i, amplitudes |-> OneHot(d, i)]
         ELSE MeasureEachProbFrom(amps, d, obs, i + 1)
MeasureEachProb(amps, obs) == MeasureEachProbFrom(amps, Cardinality(DOMAIN amps), obs, 0)

Measure(amps, obs) == MeasureFrom(amps, Cardinality(DOMAIN amps), obs, 0, 0)

\* ---------------------------------------------------- QuditAutomaton.__init__
\* a constructor that puts the 1.0 at the last outcome
NewQuditsLast(n, d) == [q \in 0..(n - 1) |-> OneHot(d, d - 1)]

NewQudits(n, d) == [q \in 0..(n - 1) |-> OneHot(d, 0)]
Eye(n) == [p \in (0..(n - 1)) \X (0..(n - 1)) |-> IF p[1] = p[2] THEN ONE ELSE 0]

\* ---------------------------------------------------- QuditAutomaton.entangle
\* numpy indexing: -n..-1 count from the end, anything else outside 0..n-1
\* raises IndexError
IndexOk(k, n) == -n <= k /\ k < n
WrapIndex(k, n) == IF k < 0 THEN k + n ELSE k

\* an entangle that writes entry (i, j) only
EntangleOneWay(M, n, i, j, strength) ==
    [M EXCEPT ![<<WrapIndex(i, n), WrapIndex(j, n)>>] = strength]

\* an entangle that writes the whole rows i and j
EntangleRows(M, n, i, j, strength) ==
    [p \in DOMAIN M |-> IF p[1] \in {WrapIndex(i, n), WrapIndex(j, n)}
                        THEN strength ELSE M[p]]

\* the matrix after entangle(i, j, strength) when both indices are accepted
EntangleMatrix(M, n, i, j, strength) ==
    LET wi == WrapIndex(i, n)
        wj == WrapIndex(j, n)
        M1 == [M EXCEPT ![<<wi, wj>>] = strength]
    IN  [M1 EXCEPT ![<<wj, wi>>] = strength]

\* ------------------------------------------------- QuditAutomaton.apply_rules
\* the neighbour loop from neighbor_idx = k with the vector built so far
RECURSIVE CoupleFrom(_, _, _, _, _, _, _)
CoupleFrom(idx, ent, qs, M, n, d, k) ==
    IF k = n THEN ent
    ELSE IF M[<<idx, k>>] # 0
         THEN CoupleFrom(idx, Eager([i \in 0..(d - 1) |->
                                  FAdd(ent[i], FMul(M[<<idx, k>>], qs[k][i]))]),
                         qs, M, n, d, k + 1)
         ELSE CoupleFrom(idx, ent, qs, M, n, d, k + 1)

\* a neighbour loop that skips neighbor_idx = idx
CoupledNoSelf(idx, amps, qs, M, n, d) ==
    CoupleFrom(idx, amps, qs, [M EXCEPT ![<<idx, idx>>] = 0], n, d, 0)

Coupled(idx, amps, qs, M, n, d) == CoupleFrom(idx, amps, qs, M, n, d, 0)

\* 1 - 0.1
DAMP == FAdd(ONE, -Fl(ONE, 10))

\* a lookup that takes the rule of the next position
ApplyRuleNextKey(rules, i, amplitude) ==
    IF rules[i + 1] = "zero" THEN 0
    ELSE IF rules[i + 1] = "shift" THEN FAdd(amplitude, ONE)
    ELSE IF rules[i + 1] = "damp" THEN FMul(amplitude, DAMP)
    ELSE amplitude

\* rules.get(i, lambda x: x)(amplitude)
ApplyRule(rules, i, amplitude) ==
    IF rules[i] = "zero" THEN 0
    ELSE IF rules[i] = "shift" THEN FAdd(amplitude, ONE)
    ELSE IF rules[i] = "damp" THEN FMul(amplitude, DAMP)
    ELSE amplitude

\* the rules loop: position i of the coupled vector goes through rules[i]
Ruled(rules, d, ent) == Eager([i \in 0..(d - 1) |-> ApplyRule(rules, i, ent[i])])

\* a normalize that replaces a vector of norm 0 by the first basis vector
NormalizeZeroToBasis(amps) ==
    LET norm == FSqrt(SumSq(amps))
    IN  IF norm # 0 THEN Eager([i \in DOMAIN amps |-> FDiv(amps[i], norm)])
        ELSE [i \in DOMAIN amps |-> IF i = 0 THEN ONE ELSE 0]

\* a normalize that divides by the sum of squares, not by its square root
NormalizeNoSqrt(amps) ==
    LET norm == SumSq(amps)
    IN  IF norm # 0 THEN Eager([i \in DOMAIN amps |-> FDiv(amps[i], norm)]) ELSE amps

Normalize(amps) ==
    LET norm == FSqrt(SumSq(amps))
    IN  IF norm # 0 THEN Eager([i \in DOMAIN amps |-> FDiv(amps[i], norm)]) ELSE amps

apply_rules(idx, amps, qs, M, n, d, rules) ==
    Normalize(Ruled(rules, d, Coupled(idx, amps, qs, M, n, d)))

\* ------------------------------------------------------ QuditAutomaton.evolve
\* an evolve that writes each new vector back as soon as it is computed, so
\* that later entities read it
RECURSIVE InPlaceFrom(_, _, _, _, _, _)
InPlaceFrom(qs, M, n, d, rules, idx) ==
    IF idx = n THEN qs
    ELSE InPlaceFrom([qs EXCEPT ![idx] = apply_rules(idx, qs[idx], qs, M, n, d, rules)],
                     M, n, d, rules, idx + 1)
NewAmplitudesInPlace(qs, M, n, d, rules) == InPlaceFrom(qs, M, n, d, rules, 0)

\* first loop of evolve: every new vector is computed from self.qudits, which
\* the loop does not write
NewAmplitudes(qs, M, n, d, rules) ==
    Eager([idx \in 0..(n - 1) |-> apply_rules(idx, qs[idx], qs, M, n, d, rules)])

\* second loop of evolve from entity k: reset_amplitudes stores the vector and
\* then validates it; a ValueError ends the loop with the vector stored
RECURSIVE CommitFrom(_, _, _, _)
CommitFrom(qs, new, n, k) ==
    IF k = n THEN [qudits |-> qs, status |-> "ok", commits |-> k]
    ELSE LET stored == [qs EXCEPT ![k] = new[k]]
         IN  IF ValidAmplitudes(new[k])
             THEN CommitFrom(stored, new, n, k + 1)
             ELSE [qudits |-> stored, status |-> "ValueError", commits |-> k + 1]

\* -------------------------------------------------- QuditAutomaton.measure_all
\* [qudit.measure() for qudit in self.qudits], each with its own draw
\* a measure_all that visits the entities from the last to the first
MeasureEachReversed(qs, n, obs) ==
    Eager([idx \in 0..(n - 1) |-> Measure(qs[idx], obs[n - 1 - idx])])

MeasureEach(qs, n, obs) == Eager([idx \in 0..(n - 1) |-> Measure(qs[idx], obs[idx])])

\* ---------------------------------------------------------------- the machine
Init ==
    /\ num_qudits \in 1..MaxQudits
    /\ dimension \in 1..MaxDim
    /\ qudits = NewQudits(num_qudits, dimension)
    /\ entanglement_matrix = Eye(num_qudits)
    /\ op = "construct"
    /\ status = "ok"
    /\ args = NoArgs
    /\ pre_qudits = qudits
    /\ pre_matrix = entanglement_matrix
    /\ entangled_amplitudes = qudits
    /\ ruled_amplitudes = qudits
    /\ new_amplitudes = qudits
    /\ commits = 0
    /\ measurements = <<>>
    /\ steps = 0

\* a call of operation name with arguments a; the caller makes at most
\* MaxSteps calls
Called(name, a) ==
    /\ steps < MaxSteps
    /\ steps' = steps + 1
    /\ op' = name
    /\ args' = a
    /\ pre_qudits' = qudits
    /\ pre_matrix' = entanglement_matrix
    /\ UNCHANGED <<num_qudits, dimension>>

Entangle ==
    \E i \in {-(num_qudits + 1), -1} \cup 0..num_qudits,
       j \in {-(num_qudits + 1), -1} \cup 0..num_qudits,
       strength \in Strengths :
        /\ Called("entangle", [NoArgs EXCEPT !.i = i, !.j = j, !.strength = strength])
        /\ IF IndexOk(i, num_qudits) /\ IndexOk(j, num_qudits)
           THEN /\ entanglement_matrix' =
                       EntangleMatrix(entanglement_matrix, num_qudits, i, j, strength)
                /\ status' = "ok"
           ELSE /\ entanglement_matrix' = entanglement_matrix
                /\ status' = "IndexError"
        /\ UNCHANGED <<qudits, entangled_amplitudes, ruled_amplitudes,
                       new_amplitudes, commits, measurements>>

Evolve ==
    \E rules \in RuleSets :
        /\ Called("evolve", [NoArgs EXCEPT !.rules = rules])
        /\ \E ent \in {Eager([idx \in Entities |->
                         Coupled(idx, qudits[idx], qudits, entanglement_matrix,
                                 num_qudits, dimension)])} :
               /\ entangled_amplitudes' = ent
               /\ ruled_amplitudes' =
                       [idx \in Entities |-> Ruled(rules, dimension, ent[idx])]
        /\ \E new \in {NewAmplitudes(qudits, entanglement_matrix,
                                      num_qudits, dimension, rules)} :
             \E done \in {CommitFrom(qudits, new, num_qudits, 0)} :
               /\ new_amplitudes' = new
               /\ qudits' = done.qudits
               /\ status' = done.status
               /\ commits' = done.commits
        /\ UNCHANGED <<entanglement_matrix, measurements>>

MeasureAll ==
    \E obs \in [Entities -> Draws] :
        /\ Called("measure_all", [NoArgs EXCEPT !.obs = obs])
        /\ \E m \in {MeasureEach(qudits, num_qudits, obs)} :
               /\ qudits' = [idx \in Entities |-> m[idx].amplitudes]
               /\ measurements' = [idx \in Entities |-> m[idx].outcome]
        /\ status' = "ok"
        /\ UNCHANGED <<entanglement_matrix, entangled_amplitudes, ruled_amplitudes,
                       new_amplitudes, commits>>

Next == Entangle \/ Evolve \/ MeasureAll

Spec == Init /\ [][Next]_vars

\* ------------------------------------------------------- a Qudit on its own
\* no Qudit exists yet
QuditInit ==
    /\ num_qudits = 0
    /\ dimension = 0
    /\ qudits = <<>>
    /\ entanglement_matrix = <<>>
    /\ op = "none"
    /\ status = "ok"
    /\ args = NoArgs
    /\ pre_qudits = <<>>
    /\ pre_matrix = <<>>
    /\ entangled_amplitudes = <<>>
    /\ ruled_amplitudes = <<>>
    /\ new_amplitudes = <<>>
    /\ commits = 0
    /\ measurements = <<>>
    /\ steps = 0

\* a call on the Qudit, which is entity 0
QuditCalled(name, a) ==
    /\ steps' = steps + 1
    /\ op' = name
    /\ args' = a
    /\ pre_qudits' = qudits
    /\ UNCHANGED <<entanglement_matrix, pre_matrix, entangled_amplitudes,
                   ruled_amplitudes, new_amplitudes, commits>>

\* Qudit(*amplitudes): the list is assigned, then validated
QuditConstruct ==
    /\ op = "none"
    /\ \E d \in 1..MaxDim : \E amplitudes \in AmpVectors(d) :
        /\ QuditCalled("Qudit", [NoArgs EXCEPT !.amplitudes = amplitudes])
        /\ num_qudits' = 1
        /\ dimension' = d
        /\ qudits' = [q \in {0} |-> amplitudes]
        /\ status' = IF ValidAmplitudes(amplitudes) THEN "ok" ELSE "ValueError"
        /\ UNCHANGED measurements

\* reset_amplitudes(*amplitudes), once, on a Qudit whose constructor returned
QuditReset ==
    /\ op = "Qudit"
    /\ status = "ok"
    /\ \E d \in 1..MaxDim : \E amplitudes \in AmpVectors(d) :
        /\ QuditCalled("reset_amplitudes", [NoArgs EXCEPT !.amplitudes = amplitudes])
        /\ dimension' = d
        /\ qudits' = [q \in {0} |-> amplitudes]
        /\ status' = IF ValidAmplitudes(amplitudes) THEN "ok" ELSE "ValueError"
        /\ UNCHANGED <<num_qudits, measurements>>

\* measure(), once, on a Qudit whose constructor returned; a reset that raised
\* has left its vector in the Qudit
QuditMeasure ==
    /\ \/ op = "Qudit" /\ status = "ok"
       \/ op = "reset_amplitudes"
    /\ \E obs \in Draws :
        /\ QuditCalled("measure", [NoArgs EXCEPT !.obs = [q \in {0} |-> obs]])
        /\ \E m \in {Measure(qudits[0], obs)} :
               /\ qudits' = [q \in {0} |-> m.amplitudes]
               /\ measurements' = [q \in {0} |-> m.outcome]
        /\ status' = "ok"
        /\ UNCHANGED <<num_qudits, dimension>>

QuditNext == QuditConstruct \/ QuditReset \/ QuditMeasure

QuditSpec == QuditInit /\ [][QuditNext]_vars

\* ------------------------------------------------------------------ claims
\* C1: after evolve, every vector written back is the result of
\* couple / apply rules / normalize on the amplitudes and matrix as they were
\* before the call, whatever was written back to other entities
SynchronousStep ==
    op = "evolve" =>
        \A idx \in 0..(commits - 1) :
            qudits[idx] = apply_rules(idx, pre_qudits[idx], pre_qudits, pre_matrix,
                                      num_qudits, dimension, args.rules)
SynchronousStepWitness ==
    /\ op = "evolve" /\ status = "ok"
    /\ \E i, j \in Entities :
        /\ i < j
        /\ pre_matrix[<<j, i>>] # 0
        /\ qudits[i] # pre_qudits[i]

\* C2: every stored amplitude vector passes validation, in every reachable
\* state
AmplitudesUnitNorm == \A idx \in Entities : ValidAmplitudes(qudits[idx])

\* C3: the entanglement matrix is symmetric in every reachable state
MatrixSymmetric ==
    \A i, j \in Entities : entanglement_matrix[<<i, j>>] = entanglement_matrix[<<j, i>>]
MatrixSymmetricWitness ==
    /\ op = "entangle" /\ status = "ok"
    /\ \E i, j \in Entities :
        /\ i # j
        /\ entanglement_matrix[<<i, j>>] # pre_matrix[<<i, j>>]
        /\ entanglement_matrix[<<j, i>>] # pre_matrix[<<j, i>>]

\* C4: an evolve that ends with a validation error leaves every stored
\* amplitude vector as it was before the call
FailedEvolveKeepsState ==
    (op = "evolve" /\ status = "ValueError") => qudits = pre_qudits

\* C5: measure on a vector that passed validation returns an outcome index
\* in 0..dimension-1 for every draw and leaves the one-hot vector of that
\* index stored
MeasureReturnsOutcome ==
    op = "measure_all" =>
        \A idx \in Entities :
            ValidAmplitudes(pre_qudits[idx]) =>
                /\ measurements[idx] \in Outcomes
                /\ qudits[idx] = [j \in Outcomes |-> IF j = measurements[idx] THEN ONE ELSE 0]

\* C6: measure on a one-hot vector with 1.0 at m returns m for every draw and
\* leaves the vector as it is
OneHotMeasureIdempotent ==
    op = "measure_all" =>
        \A idx \in Entities : \A m \in Outcomes :
            pre_qudits[idx] = [j \in Outcomes |-> IF j = m THEN ONE ELSE 0] =>
                /\ measurements[idx] = m
                /\ qudits[idx] = pre_qudits[idx]
OneHotMeasureIdempotentWitness ==
    /\ op = "measure_all"
    /\ \E idx \in Entities :
        /\ pre_qudits[idx] = [j \in Outcomes |-> IF j = 1 THEN ONE ELSE 0]
        /\ args.obs[idx] = 0
        /\ measurements[idx] = 1

\* C7: with 2 entities, dimension 2 and the identity matrix, evolve with an
\* empty rules dict leaves every amplitude vector as it is
IsolatedEvolveUnchanged ==
    (/\ op = "evolve"
     /\ num_qudits = 2 /\ dimension = 2
     /\ \A i, j \in Entities : pre_matrix[<<i, j>>] = (IF i = j THEN ONE ELSE 0)
     /\ \A k \in DOMAIN args.rules : args.rules[k] = "absent")
    => qudits = pre_qudits
\* C7, amended: under the same conditions every one-hot vector is left as it
\* is (a vector that is not one-hot may move by a rounding step)
IsolatedEvolveKeepsOneHot ==
    (/\ op = "evolve"
     /\ num_qudits = 2 /\ dimension = 2
     /\ \A i, j \in Entities : pre_matrix[<<i, j>>] = (IF i = j THEN ONE ELSE 0)
     /\ \A k \in DOMAIN args.rules : args.rules[k] = "absent")
    => \A idx \in Entities : \A m \in Outcomes :
           pre_qudits[idx] = [j \in Outcomes |-> IF j = m THEN ONE ELSE 0] =>
               qudits[idx] = pre_qudits[idx]
IsolatedEvolveKeepsOneHotWitness ==
    /\ op = "evolve" /\ status = "ok"
    /\ num_qudits = 2 /\ dimension = 2
    /\ \A i, j \in Entities : pre_matrix[<<i, j>>] = (IF i = j THEN ONE ELSE 0)
    /\ \A k \in DOMAIN args.rules : args.rules[k] = "absent"
    /\ \A idx \in Entities : pre_qudits[idx] = [j \in Outcomes |-> IF j = 1 THEN ONE ELSE 0]
    /\ qudits = pre_qudits

\* C8: the constructor leaves every entity with 1.0 at outcome 0 and 0.0
\* elsewhere, and the matrix with 1.0 on the diagonal and 0.0 elsewhere
ConstructedState ==
    op = "construct" =>
        /\ DOMAIN qudits = Entities
        /\ \A idx \in Entities :
            /\ DOMAIN qudits[idx] = Outcomes
            /\ \A j \in Outcomes : qudits[idx][j] = (IF j = 0 THEN ONE ELSE 0)
        /\ DOMAIN entanglement_matrix = Entities \X Entities
        /\ \A i, j \in Entities :
            entanglement_matrix[<<i, j>>] = (IF i = j THEN ONE ELSE 0)
ConstructedStateWitness ==
    op = "construct" /\ num_qudits = 2 /\ dimension = 2

\* C9: measure_all returns one result per entity, entity idx being measured
\* with the idx-th draw; an entity's result and new vector depend on its own
\* vector and draw only, and the matrix is left as it is
MeasureAllFrame ==
    op = "measure_all" =>
        /\ DOMAIN measurements = Entities
        /\ \A idx \in Entities :
            /\ measurements[idx] = Measure(pre_qudits[idx], args.obs[idx]).outcome
            /\ qudits[idx] = Measure(pre_qudits[idx], args.obs[idx]).amplitudes
        /\ entanglement_matrix = pre_matrix
MeasureAllFrameWitness ==
    /\ op = "measure_all"
    /\ num_qudits = 2
    /\ \E i, j \in Entities :
        /\ measurements[i] # measurements[j]
        /\ measurements[i] \in Outcomes /\ measurements[j] \in Outcomes
        /\ args.obs[i] # args.obs[j]
        /\ qudits[i] # pre_qudits[i]
        /\ pre_qudits[i] = pre_qudits[j]

\* C10: entangle with an index outside 0..n-1 ends with an index error and
\* leaves the matrix as it is
EntangleOutOfRangeFails ==
    (/\ op = "entangle"
     /\ (args.i \notin Entities \/ args.j \notin Entities))
    => (status = "IndexError" /\ entanglement_matrix = pre_matrix)

\* C11: Qudit(...) and reset_amplitudes(...) raise ValueError exactly when the
\* sum of the squared magnitudes deviates from 1.0 by more than one unit of the
\* last rounded digit (1e-10 in the source, 1/ROUND_SCALE here), and a vector
\* within that distance is accepted and stored.
ValidationWithinLastDigit ==
    op \in {"Qudit", "reset_amplitudes"} =>
        /\ status = "ValueError" <=>
               Abs(SumSq(args.amplitudes) - ONE) * ROUND_SCALE > ONE
        /\ status = "ok" => qudits[0] = args.amplitudes

\* C11, amended: Qudit(...) and reset_amplitudes(...) raise ValueError exactly
\* when the sum of the squared magnitudes deviates from 1.0 by more than half a
\* unit of the last rounded digit (5e-11 in the source), and a vector within
\* that distance is accepted and stored.
ValidationWithinHalfDigit ==
    op \in {"Qudit", "reset_amplitudes"} =>
        /\ status = "ValueError" <=>
               2 * Abs(SumSq(args.amplitudes) - ONE) * ROUND_SCALE > ONE
        /\ status = "ok" => qudits[0] = args.amplitudes

\* a reset to a vector whose sum is not 1.0 was accepted and the vector stored
ValidationWithinHalfDigitWitness ==
    /\ op = "reset_amplitudes"
    /\ status = "ok"
    /\ SumSq(args.amplitudes) # ONE
    /\ qudits[0] = args.amplitudes

\* C12: in evolve, the coupled vector of entity idx at position pos, before any
\* rule, is its own amplitude plus, for every entity k (idx included) whose
\* strength with idx is nonzero, strength * amplitude of k at pos, added in the
\* order of k; with 2 entities at [1, 0], entangle(0, 1, 1.0) and empty rules
\* the coupled vector of entity 0 is [3, 0] and the committed one [1, 0].
CoupledVector ==
    op = "evolve" =>
        /\ \A idx \in Entities : \A pos \in Outcomes :
               LET sum[k \in -1..(num_qudits - 1)] ==
                       IF k = -1 THEN pre_qudits[idx][pos]
                       ELSE IF pre_matrix[<<idx, k>>] # 0
                            THEN FAdd(sum[k - 1],
                                      FMul(pre_matrix[<<idx, k>>], pre_qudits[k][pos]))
                            ELSE sum[k - 1]
               IN  entangled_amplitudes[idx][pos] = sum[num_qudits - 1]
        /\ (/\ num_qudits = 2
            /\ dimension = 2
            /\ pre_qudits = [q \in 0..1 |-> OneHot(2, 0)]
            /\ pre_matrix = [p \in (0..1) \X (0..1) |-> ONE]
            /\ args.rules = NoRules)
           => /\ entangled_amplitudes[0] = [pos \in 0..1 |-> IF pos = 0 THEN 3 * ONE ELSE 0]
              /\ qudits[0] = OneHot(2, 0)

\* the evolve of the example: strength 1.0 between entities 0 and 1, no rules
CoupledVectorWitness ==
    /\ op = "evolve"
    /\ num_qudits = 2
    /\ dimension = 2
    /\ pre_qudits = [q \in 0..1 |-> OneHot(2, 0)]
    /\ pre_matrix = [p \in (0..1) \X (0..1) |-> ONE]
    /\ args.rules = NoRules
    /\ entangled_amplitudes[0][0] = 3 * ONE
    /\ status = "ok"

\* C13: whenever the vector of some entity after the rules is all zero, evolve
\* leaves that vector unnormalized and ends with a ValueError; it never
\* completes as a success.
ZeroVectorFailsEvolve ==
    op = "evolve" =>
        \A idx \in Entities :
            (\A pos \in Outcomes : ruled_amplitudes[idx][pos] = 0) =>
                /\ new_amplitudes[idx] = ruled_amplitudes[idx]
                /\ status = "ValueError"

\* an evolve with no rules in which a coupling of -1.0 cancelled a vector
ZeroVectorFailsEvolveWitness ==
    /\ op = "evolve"
    /\ args.rules = NoRules
    /\ \E idx \in Entities : \A pos \in Outcomes : ruled_amplitudes[idx][pos] = 0
    /\ status = "ValueError"

\* C14: measure() with draw u returns the first index i, scanning 0..d-1, at
\* which the cumulative squared mass of outcomes 0..i strictly exceeds u; the
\* amplitude of the returned outcome is not 0; after the call the stored vector
\* is 1.0 at i and 0.0 elsewhere.  No index is returned when no cumulative mass
\* exceeds u.
MeasureFirstExceeding ==
    op = "measure" =>
        LET amplitudes == pre_qudits[0]
            u == args.obs[0]
            exceeding == {i \in Outcomes : SumSqFrom(amplitudes, i + 1, 0, 0) > u}
            returned == measurements[0]
        IN  /\ exceeding # {} =>
                  /\ returned \in exceeding
                  /\ \A i \in exceeding : returned <= i
                  /\ amplitudes[returned] # 0
                  /\ qudits[0] = OneHot(dimension, returned)
            /\ exceeding = {} => returned = NONE

\* a measure that passed over outcome 0, whose mass did not exceed the draw,
\* and collapsed the Qudit to outcome 1
MeasureFirstExceedingWitness ==
    /\ op = "measure"
    /\ measurements[0] = 1
    /\ pre_qudits[0][0] # 0
    /\ pre_qudits[0][1] # ONE
    /\ qudits[0] = OneHot(2, 1)

\* C15: in evolve the rules act position by position on the coupled vector: the
\* value v at position pos becomes rules[pos](v) when pos is a key and stays v
\* otherwise, whatever the rules and values of the other positions; a rules
\* dict whose keys all lie outside 0..dimension-1 changes nothing.
RulesPerPosition ==
    op = "evolve" =>
        \A idx \in Entities :
            /\ \A pos \in Outcomes :
                   LET v == entangled_amplitudes[idx][pos]
                       rule == args.rules[pos]
                   IN  ruled_amplitudes[idx][pos] =
                           CASE rule = "zero" -> 0
                             [] rule = "shift" -> FAdd(v, ONE)
                             [] rule = "damp" -> FMul(v, DAMP)
                             [] OTHER -> v
            /\ (\A pos \in Outcomes : args.rules[pos] = "absent")
                   => ruled_amplitudes[idx] = entangled_amplitudes[idx]

\* an evolve in dimension 1 with rules for keys 0 and 1: the rule of key 0
\* changed position 0 and key 1 is out of range
RulesPerPositionWitness ==
    /\ op = "evolve"
    /\ dimension = 1
    /\ args.rules[0] = "damp"
    /\ args.rules[1] = "shift"
    /\ ruled_amplitudes[0][0] = FMul(entangled_amplitudes[0][0], DAMP)
    /\ ruled_amplitudes[0][0] # entangled_amplitudes[0][0]
    /\ status = "ok"

\* C16: only entangle writes the matrix: a call of evolve or measure_all,
\* whether it returns or raises, leaves every matrix entry as it was; a call
\* entangle(i, j, s) changes at most the entries (i, j) and (j, i), with numpy's
\* reading of the indices, and leaves every amplitude vector, the number of
\* entities and the dimension as they were.
MatrixWrittenByEntangleOnly ==
    [][/\ op' \in {"evolve", "measure_all"} => entanglement_matrix' = entanglement_matrix
       /\ op' = "entangle" =>
              /\ \A p \in DOMAIN entanglement_matrix :
                     p \notin {<<WrapIndex(args'.i, num_qudits), WrapIndex(args'.j, num_qudits)>>,
                               <<WrapIndex(args'.j, num_qudits), WrapIndex(args'.i, num_qudits)>>}
                         => entanglement_matrix'[p] = entanglement_matrix[p]
              /\ DOMAIN entanglement_matrix' = DOMAIN entanglement_matrix
              /\ qudits' = qudits
              /\ num_qudits' = num_qudits
              /\ dimension' = dimension]_vars

\* an entangle that changed the matrix of an automaton whose vectors an earlier
\* evolve had moved away from the constructed ones
MatrixWrittenByEntangleOnlyWitness ==
    /\ op = "entangle"
    /\ status = "ok"
    /\ args.i # args.j
    /\ entanglement_matrix # pre_matrix
    /\ qudits = pre_qudits
    /\ \E idx \in Entities : qudits[idx] # OneHot(dimension, 0)
====
